---- MODULE Spec2Model ----
\* A model of the go-redirect service: the persisted `redirects` collection with
\* its indexes, the user directory, the session of a browser, the web routes
\* (server.js, routes/redirects.js, routes/auth.js, middleware/auth.js) and the
\* command-line programs that write the same collection.
EXTENDS Integers, Sequences, FiniteSets, TLC

VARIABLES
    store,       \* the redirects collection: a set of documents
    clock,       \* source of ObjectIds and of Date.now at document construction
    legacyIndex, \* TRUE once the unique index on `slug` alone exists in the collection
    isActive,    \* users collection: the isActive flag of each user
    session,     \* session store: the userId held by each browser's session
    currentUser, \* the user-scoped CLI's global `currentUser`
    resp,        \* the response (or console outcome) of the last completed operation
    req          \* the web requests in flight, each at an await of its handler

vars == <<store, clock, legacyIndex, isActive, session, currentUser, resp, req>>

----------------------------------------------------------------------------
\* Bounds of the model

\* documents ever created (ObjectIds are never reused)
MaxRecords == 2

Users == {"u1", "u2"}
Clients == {"c1"}
\* requests the server handles at the same time
Requests == {"r1", "r2"}
NoUser == "none"

----------------------------------------------------------------------------
\* Strings are sequences of one-character strings, so that trim, toLowerCase and
\* startsWith are computed and not assumed.

Str_a == <<"a">>
Str_A == <<"A">>
Str_b == <<"b">>
Str_sp_A == <<" ", "A">>
Str_sp_a == <<" ", "a">>
Str_a_sp == <<"a", " ">>
Str_blank == <<" ">>
\* a form field that is absent from the request body (`undefined`)
Missing == <<"undefined">>

Str_http == <<"h", "t", "t", "p", ":", "/", "/">>
Str_https == <<"h", "t", "t", "p", "s", ":", "/", "/">>
Url_x == <<"x">>
Url_sp_x == <<" ", "x">>
Url_http_x == Str_http \o <<"x">>
Url_https_x == Str_https \o <<"x">>

LowerChar(c) ==
    CASE c = "A" -> "a"
      [] c = "B" -> "b"
      [] c = "H" -> "h"
      [] c = "T" -> "t"
      [] c = "P" -> "p"
      [] c = "S" -> "s"
      [] c = "X" -> "x"
      [] OTHER -> c

toLowerCase(s) == [i \in 1..Len(s) |-> LowerChar(s[i])]

RECURSIVE trimStart(_)
trimStart(s) == IF s # <<>> /\ Head(s) = " " THEN trimStart(Tail(s)) ELSE s

RECURSIVE trimEnd(_)
trimEnd(s) ==
    IF s # <<>> /\ s[Len(s)] = " " THEN trimEnd(SubSeq(s, 1, Len(s) - 1)) ELSE s

trim(s) == trimEnd(trimStart(s))

startsWith(s, p) == Len(s) >= Len(p) /\ SubSeq(s, 1, Len(p)) = p

\* (mutant) the schema's slug path without trim: true
CastSlugNoTrim(v) == toLowerCase(v)

\* redirectSchema.slug: { lowercase: true, trim: true } - the setters mongoose
\* runs on a value assigned to a document path and on a value of a query filter
CastSlug(v) == trim(toLowerCase(v))

\* (mutant) a url setter that also puts the scheme in front
CastUrlWithScheme(v) ==
    IF startsWith(trim(v), Str_http) \/ startsWith(trim(v), Str_https)
    THEN trim(v)
    ELSE Str_https \o trim(v)

\* redirectSchema.url: { trim: true }
CastUrl(v) == trim(v)

\* (mutant) a schema without required: true
NotRequired(v) == TRUE

\* required: true - a string path must hold a non-empty string
Required(v) == v # Missing /\ Len(v) > 0

----------------------------------------------------------------------------
\* Program constants

DuplicateKey == 11000
StatusMovedPermanently == 301
StatusNotFound == 404
StatusFound == 302
StatusOK == 200
CacheMaxAge == 300
StatusServerError == 500

----------------------------------------------------------------------------
\* The persistence layer: documents, queries, indexes

Doc(id, slug, url, userId, createdAt) ==
    [id |-> id, slug |-> slug, url |-> url, userId |-> userId, createdAt |-> createdAt]

\* (mutant) the compound index was never declared
NoCompoundIndex(st, doc) == FALSE

\* redirectSchema.index({ slug: 1, userId: 1 }, { unique: true })
CompoundIndexViolated(st, doc) ==
    \E r \in st : r.id # doc.id /\ r.slug = doc.slug /\ r.userId = doc.userId

\* the earlier schema's slug: { unique: true }, an index on slug alone
SlugIndexViolated(st, doc) ==
    \E r \in st : r.id # doc.id /\ r.slug = doc.slug

DuplicateKeyError(st, idx, doc) ==
    CompoundIndexViolated(st, doc) \/ (idx /\ SlugIndexViolated(st, doc))

\* (mutant) a lookup by slug that leaves the owner out of the filter
findOneBySlugAnyOwner(st, slug, userId) ==
    {r \in st : r.slug = CastSlug(slug)}

\* Redirect.findOne({ slug, userId }): the filter's slug is cast by the schema
findOneBySlug(st, slug, userId) ==
    {r \in st : r.slug = CastSlug(slug) /\ r.userId = userId}

\* (mutant) a lookup by id that leaves the owner out of the filter
findOneByIdAnyOwner(st, id, userId) ==
    {r \in st : r.id = id}

\* Redirect.findOne({ _id, userId })
findOneById(st, id, userId) ==
    {r \in st : r.id = id /\ r.userId = userId}

\* document.save() of a new document: validation, then one insert that the
\* unique indexes accept or reject
saveNew(st, idx, doc) ==
    IF ~Required(doc.slug) \/ ~Required(doc.url)
    THEN [error |-> "ValidationError", code |-> 0, store |-> st]
    ELSE IF DuplicateKeyError(st, idx, doc)
    THEN [error |-> "MongoServerError", code |-> DuplicateKey, store |-> st]
    ELSE [error |-> "", code |-> 0, store |-> st \cup {doc}]

\* (mutant) a save that reports success and writes nothing
saveLoadedLost(st, idx, loaded, slug, url) ==
    [error |-> "", code |-> 0, store |-> st]

\* (mutant) a save that writes the document anew, with createdAt defaulted again
saveLoadedReplace(st, idx, loaded, slug, url) ==
    LET s == CastSlug(slug)
        u == CastUrl(url)
        new == [loaded EXCEPT !.slug = s, !.url = u, !.createdAt = 0]
    IN  IF ~Required(s) \/ ~Required(u)
        THEN [error |-> "ValidationError", code |-> 0, store |-> st]
        ELSE IF DuplicateKeyError(st, idx, new)
        THEN [error |-> "MongoServerError", code |-> DuplicateKey, store |-> st]
        ELSE [error |-> "", code |-> 0,
              store |-> {r \in st : r.id # loaded.id} \cup {new}]

\* (mutant) a save that writes the url before the slug and keeps the url when the
\* slug is rejected
saveLoadedPartial(st, idx, loaded, slug, url) ==
    LET s == CastSlug(slug)
        u == CastUrl(url)
        cur == {r \in st : r.id = loaded.id}
    IN  IF ~Required(s) \/ ~Required(u)
        THEN [error |-> "ValidationError", code |-> 0, store |-> st]
        ELSE IF cur = {}
        THEN [error |-> "DocumentNotFoundError", code |-> 0, store |-> st]
        ELSE LET old == CHOOSE r \in cur : TRUE
                 mid == [old EXCEPT !.url = u]
                 new == [mid EXCEPT !.slug = s]
             IN  IF DuplicateKeyError(st, idx, new)
                 THEN [error |-> "MongoServerError", code |-> DuplicateKey,
                       store |-> (st \ {old}) \cup {mid}]
                 ELSE [error |-> "", code |-> 0, store |-> (st \ {old}) \cup {new}]

\* document.save() of a loaded document after `slug` and `url` were assigned:
\* only the paths whose value changed are written, in one update by _id
saveLoaded(st, idx, loaded, slug, url) ==
    LET s == CastSlug(slug)
        u == CastUrl(url)
        cur == {r \in st : r.id = loaded.id}
    IN  IF ~Required(s) \/ ~Required(u)
        THEN [error |-> "ValidationError", code |-> 0, store |-> st]
        ELSE IF cur = {}
        THEN [error |-> "DocumentNotFoundError", code |-> 0, store |-> st]
        ELSE LET old == CHOOSE r \in cur : TRUE
                 new == [old EXCEPT !.slug = IF s # loaded.slug THEN s ELSE old.slug,
                                    !.url = IF u # loaded.url THEN u ELSE old.url]
             IN  IF s # loaded.slug /\ DuplicateKeyError(st, idx, new)
                 THEN [error |-> "MongoServerError", code |-> DuplicateKey, store |-> st]
                 ELSE [error |-> "", code |-> 0, store |-> (st \ {old}) \cup {new}]

\* (mutant) a delete that removes nothing
deleteNothing(st, matching) == st

\* Redirect.deleteOne(filter)
deleteOne(st, matching) ==
    IF matching = {} THEN st ELSE st \ {CHOOSE r \in matching : TRUE}

----------------------------------------------------------------------------
\* Responses

Response(kind, user, slug, url, id, outcome, status, target, maxAge) ==
    [via |-> "web", kind |-> kind, user |-> user, slug |-> slug, url |-> url, id |-> id,
     outcome |-> outcome, status |-> status, target |-> target, maxAge |-> maxAge,
     list |-> <<>>, fault |-> "none"]

\* what a command-line program prints
Console(via, kind, user, slug, url, id, outcome) ==
    [via |-> via, kind |-> kind, user |-> user, slug |-> slug, url |-> url, id |-> id,
     outcome |-> outcome, status |-> 0, target |-> <<>>, maxAge |-> 0, list |-> <<>>,
     fault |-> "none"]

NoResponse == Console("none", "none", NoUser, <<>>, <<>>, 0, "none")

\* res.redirect('/login')
Denied(kind, slug, id) ==
    Response(kind, NoUser, slug, <<>>, id, "Denied", StatusFound, <<"/", "login">>, 0)

\* a request in flight: where its handler stands, what it was sent and what its
\* findOne returned
InFlight(pc, kind, user, id, slug, url, loaded, outcome) ==
    [pc |-> pc, kind |-> kind, user |-> user, id |-> id, slug |-> slug, url |-> url,
     loaded |-> loaded, outcome |-> outcome]

NoDoc == Doc(0, <<>>, <<>>, NoUser, 0)

Idle == InFlight("idle", "none", NoUser, 0, <<>>, <<>>, NoDoc, "none")

----------------------------------------------------------------------------
\* middleware/auth.js

\* getCurrentUser: req.user, or NoUser when the session names no active user
getCurrentUser(sid, active) ==
    IF sid # NoUser /\ active[sid] THEN sid ELSE NoUser

\* (mutant) getCurrentUser without req.session.destroy()
sessionKept(sid, active) == sid

\* getCurrentUser destroys the session of an inactive user
sessionAfter(sid, active) ==
    IF sid # NoUser /\ active[sid] THEN sid ELSE NoUser

\* (mutant) a route mounted without the authentication check
requireAuthOff(sid, user) == TRUE

requireAuth(sid, user) == sid # NoUser /\ user # NoUser

----------------------------------------------------------------------------
\* server.js, app.get('/:slug')

\* (mutant) only the http:// prefix is recognised
addProtocolHttpOnly(url) ==
    IF ~startsWith(url, Str_http) THEN Str_https \o url ELSE url

\* "Add protocol if not present"
addProtocol(url) ==
    IF ~startsWith(url, Str_http) /\ ~startsWith(url, Str_https)
    THEN Str_https \o url
    ELSE url

\* (mutant) a hit answered by res.redirect(url) with no headers set
GetSlugTemporary(st, user, slug) ==
    LET redirect == findOneBySlug(st, toLowerCase(slug), user)
    IN  IF redirect = {}
        THEN Response("resolve", user, slug, <<>>, 0, "NotFound", StatusNotFound, <<>>, 0)
        ELSE LET r == CHOOSE x \in redirect : TRUE
             IN  Response("resolve", user, slug, <<>>, r.id, "Redirect",
                          StatusFound, addProtocol(r.url), 0)

\* (mutant) the path segment is looked up as typed
GetSlugExact(st, user, slug) ==
    LET redirect == {r \in st : r.slug = slug /\ r.userId = user}
    IN  IF redirect = {}
        THEN Response("resolve", user, slug, <<>>, 0, "NotFound", StatusNotFound, <<>>, 0)
        ELSE LET r == CHOOSE x \in redirect : TRUE
             IN  Response("resolve", user, slug, <<>>, r.id, "Redirect",
                          StatusMovedPermanently, addProtocol(r.url), CacheMaxAge)

GetSlug(st, user, slug) ==
    LET redirect == findOneBySlug(st, toLowerCase(slug), user)
    IN  IF redirect = {}
        THEN Response("resolve", user, slug, <<>>, 0, "NotFound", StatusNotFound, <<>>, 0)
        ELSE LET r == CHOOSE x \in redirect : TRUE
             IN  Response("resolve", user, slug, <<>>, r.id, "Redirect",
                          StatusMovedPermanently, addProtocol(r.url), CacheMaxAge)

----------------------------------------------------------------------------
\* routes/redirects.js

\* router.post('/redirects')
PostRedirects(st, idx, t, user, slug, url) ==
    IF slug = Missing
    THEN \* slug.trim() throws in the try block and again in the catch block
         [store |-> st, resp |-> Response("add", user, slug, url, 0, "Unanswered", 0, <<>>, 0)]
    ELSE IF url = Missing
    THEN [store |-> st, resp |-> Response("add", user, slug, url, 0, "Error", StatusOK, <<>>, 0)]
    ELSE LET doc == Doc(t, CastSlug(toLowerCase(trim(slug))), CastUrl(trim(url)), user, t)
             saved == saveNew(st, idx, doc)
         IN  [store |-> saved.store,
              resp |-> IF saved.error = ""
                       THEN Response("add", user, slug, url, t, "Created", StatusFound, <<"/">>, 0)
                       ELSE IF saved.code = DuplicateKey
                       THEN Response("add", user, slug, url, 0, "Conflict", StatusOK, <<>>, 0)
                       ELSE Response("add", user, slug, url, 0, "Error", StatusOK, <<>>, 0)]

\* router.post('/redirects/:id') after its findOne returned `loaded`
PostRedirectsIdSave(st, idx, user, loaded, slug, url) ==
    IF slug = Missing \/ url = Missing
    THEN [store |-> st,
          resp |-> Response("edit", user, slug, url, loaded.id, "Error", StatusOK, <<>>, 0)]
    ELSE LET saved == saveLoaded(st, idx, loaded, toLowerCase(trim(slug)), trim(url))
         IN  [store |-> saved.store,
              resp |-> IF saved.error = ""
                       THEN Response("edit", user, slug, url, loaded.id, "Updated", StatusFound, <<"/">>, 0)
                       ELSE IF saved.code = DuplicateKey
                       THEN Response("edit", user, slug, url, loaded.id, "Conflict", StatusOK, <<>>, 0)
                       ELSE Response("edit", user, slug, url, loaded.id, "Error", StatusOK, <<>>, 0)]

\* router.post('/redirects/:id')
PostRedirectsId(st, idx, user, id, slug, url) ==
    LET redirect == findOneById(st, id, user)
    IN  IF redirect = {}
        THEN [store |-> st,
              resp |-> Response("edit", user, <<>>, <<>>, id, "NotFound", StatusFound, <<"/">>, 0)]
        ELSE PostRedirectsIdSave(st, idx, user, CHOOSE r \in redirect : TRUE, slug, url)

\* router.post('/redirects/:id/delete') after its findOne returned `loaded`
PostRedirectsIdDeleteWrite(st, user, loaded) ==
    [store |-> deleteOne(st, findOneById(st, loaded.id, user)),
     resp |-> Response("delete", user, loaded.slug, loaded.url, loaded.id, "Deleted", StatusFound, <<"/">>, 0)]

\* router.post('/redirects/:id/delete')
PostRedirectsIdDelete(st, user, id) ==
    LET redirect == findOneById(st, id, user)
    IN  IF redirect = {}
        THEN [store |-> st,
              resp |-> Response("delete", user, <<>>, <<>>, id, "NotFound", StatusFound, <<"/">>, 0)]
        ELSE PostRedirectsIdDeleteWrite(st, user, CHOOSE r \in redirect : TRUE)

\* the order of .sort({ slug: 1 }): strings compare character by character
CharRank(c) ==
    CASE c = " " -> 1 [] c = "/" -> 2 [] c = ":" -> 3
      [] c = "A" -> 4 [] c = "H" -> 5 [] c = "P" -> 6 [] c = "T" -> 7
      [] c = "a" -> 8 [] c = "b" -> 9 [] c = "f" -> 10 [] c = "h" -> 11
      [] c = "p" -> 12 [] c = "s" -> 13 [] c = "t" -> 14 [] c = "x" -> 15
      [] c = "y" -> 16 [] OTHER -> 17

RECURSIVE StrLess(_, _)
StrLess(s, t) ==
    IF s = <<>> THEN t # <<>>
    ELSE IF t = <<>> THEN FALSE
    ELSE IF Head(s) = Head(t) THEN StrLess(Tail(s), Tail(t))
    ELSE CharRank(Head(s)) < CharRank(Head(t))

RECURSIVE SortBySlug(_)
SortBySlug(docs) ==
    IF docs = {} THEN <<>>
    ELSE LET first == CHOOSE r \in docs :
                          \A o \in docs \ {r} :
                              StrLess(r.slug, o.slug) \/ (r.slug = o.slug /\ r.id < o.id)
         IN  <<first>> \o SortBySlug(docs \ {first})

\* (mutant) a listing in the order of insertion
SortById(docs) ==
    IF docs = {} THEN <<>>
    ELSE LET ids == {r.id : r \in docs}
             nth(n) == CHOOSE r \in docs : Cardinality({i \in ids : i < r.id}) = n - 1
         IN  [n \in 1..Cardinality(docs) |-> nth(n)]

GetDashboardById(st, user) == SortById({r \in st : r.userId = user})

\* router.get('/'): Redirect.find({ userId }).sort({ slug: 1 })
GetDashboard(st, user) == SortBySlug({r \in st : r.userId = user})

\* router.get('/redirects/:id/edit'): the form rendered with the record found
GetRedirectsIdEdit(st, user, id) ==
    LET redirect == findOneById(st, id, user)
    IN  IF redirect = {}
        THEN Response("form", user, <<>>, <<>>, id, "NotFound", StatusFound, <<"/">>, 0)
        ELSE [Response("form", user, <<>>, <<>>, id, "Form", StatusOK, <<>>, 0)
                 EXCEPT !.list = <<CHOOSE x \in redirect : TRUE>>]

----------------------------------------------------------------------------
\* Inputs

\* the `slug` and `url` fields of a form body: every combination of the valid
\* values, and each invalid value (blank, absent) next to a valid one
ValidSlugInputs == {Str_a, Str_sp_A, Str_b}
ValidUrlInputs == {Url_sp_x, Url_http_x}
FormInputs ==
    (ValidSlugInputs \X ValidUrlInputs)
        \cup ({Str_blank, Missing} \X {Url_http_x})
        \cup ({Str_a} \X {Str_blank, Missing})
\* the :slug segment of a request path
PathSlugs == {Str_a, Str_A, Str_sp_A, Str_sp_a, Str_a_sp, Str_b}
\* the :id segment of a request path
Ids == 1..MaxRecords

----------------------------------------------------------------------------
\* Initial state: an empty collection with the compound index, users created
\* inactive, nobody logged in

Init ==
    /\ store = {}
    /\ clock = 1
    /\ legacyIndex = FALSE
    /\ isActive = [u \in Users |-> FALSE]
    /\ session = [c \in Clients |-> NoUser]
    /\ currentUser = NoUser
    /\ resp = NoResponse
    /\ req = [k \in Requests |-> Idle]

----------------------------------------------------------------------------
\* Web requests. Every request passes getCurrentUser, then requireAuth (the
\* redirects router is mounted on '/'), then its route handler.

Middleware(c) ==
    session' = [session EXCEPT ![c] = sessionAfter(session[c], isActive)]

\* GET /:slug
Resolve(c, slug) ==
    LET user == getCurrentUser(session[c], isActive)
    IN  /\ Middleware(c)
        /\ resp' = IF requireAuth(session[c], user)
                   THEN GetSlug(store, user, slug)
                   ELSE Denied("resolve", slug, 0)
        /\ UNCHANGED <<req, store, clock, legacyIndex, isActive, currentUser>>

\* POST /redirects
Add(c, slug, url) ==
    LET user == getCurrentUser(session[c], isActive)
        out == IF requireAuth(session[c], user)
               THEN PostRedirects(store, legacyIndex, clock, user, slug, url)
               ELSE [store |-> store, resp |-> Denied("add", <<>>, 0)]
    IN  /\ out.store = store \/ clock <= MaxRecords
        /\ Middleware(c)
        /\ store' = out.store
        /\ clock' = IF out.store = store THEN clock ELSE clock + 1
        /\ resp' = out.resp
        /\ UNCHANGED <<req, legacyIndex, isActive, currentUser>>

\* POST /redirects/:id
Edit(c, id, slug, url) ==
    LET user == getCurrentUser(session[c], isActive)
        out == IF requireAuth(session[c], user)
               THEN PostRedirectsId(store, legacyIndex, user, id, slug, url)
               ELSE [store |-> store, resp |-> Denied("edit", <<>>, id)]
    IN  /\ Middleware(c)
        /\ store' = out.store
        /\ resp' = out.resp
        /\ UNCHANGED <<req, clock, legacyIndex, isActive, currentUser>>

\* POST /redirects/:id/delete
Remove(c, id) ==
    LET user == getCurrentUser(session[c], isActive)
        out == IF requireAuth(session[c], user)
               THEN PostRedirectsIdDelete(store, user, id)
               ELSE [store |-> store, resp |-> Denied("delete", <<>>, id)]
    IN  /\ Middleware(c)
        /\ store' = out.store
        /\ resp' = out.resp
        /\ UNCHANGED <<req, clock, legacyIndex, isActive, currentUser>>

\* POST /login with the credentials of user u
Login(c, u) ==
    LET user == getCurrentUser(session[c], isActive)
    IN  /\ IF session[c] # NoUser /\ user # NoUser
           THEN \* redirectIfAuthenticated
                /\ session' = session
                /\ resp' = Response("login", user, <<>>, <<>>, 0, "AlreadyIn", StatusFound, <<"/">>, 0)
           ELSE IF session[c] = NoUser /\ isActive[u]
           THEN /\ session' = [session EXCEPT ![c] = u]
                /\ resp' = Response("login", u, <<>>, <<>>, 0, "LoggedIn", StatusFound, <<"/">>, 0)
           ELSE \* inactive user, or the session was destroyed by getCurrentUser
                /\ Middleware(c)
                /\ resp' = Response("login", NoUser, <<>>, <<>>, 0, "LoginFailed", StatusFound,
                                    <<"/", "login">>, 0)
        /\ UNCHANGED <<req, store, clock, legacyIndex, isActive, currentUser>>

\* POST /logout
Logout(c) ==
    /\ session[c] # NoUser
    /\ session' = [session EXCEPT ![c] = NoUser]
    /\ resp' = Response("logout", NoUser, <<>>, <<>>, 0, "LoggedOut", StatusFound, <<"/", "login">>, 0)
    /\ UNCHANGED <<req, store, clock, legacyIndex, isActive, currentUser>>

\* GET /
List(c) ==
    LET user == getCurrentUser(session[c], isActive)
    IN  /\ Middleware(c)
        /\ resp' = IF requireAuth(session[c], user)
                   THEN [Response("list", user, <<>>, <<>>, 0, "Listed", StatusOK, <<>>, 0)
                            EXCEPT !.list = GetDashboard(store, user)]
                   ELSE Denied("list", <<>>, 0)
        /\ UNCHANGED <<req, store, clock, legacyIndex, isActive, currentUser>>

----------------------------------------------------------------------------
\* utils/create-user.js

\* (mutant) a deactivation that deletes the user's redirects
toggleUserStatusCascade(u) ==
    /\ isActive' = [isActive EXCEPT ![u] = ~isActive[u]]
    /\ store' = IF isActive[u] THEN {r \in store : r.userId # u} ELSE store
    /\ UNCHANGED <<req, clock, legacyIndex, session, currentUser, resp>>

toggleUserStatus(u) ==
    /\ isActive' = [isActive EXCEPT ![u] = ~isActive[u]]
    /\ UNCHANGED <<req, store, clock, legacyIndex, session, currentUser, resp>>

----------------------------------------------------------------------------
\* utils/cli.js, the user-scoped command-line program

\* selectUser: the choices are the users that are active now
selectUser(u) ==
    /\ isActive[u]
    /\ currentUser' = u
    /\ UNCHANGED <<req, store, clock, legacyIndex, isActive, session, resp>>

\* addRedirect; the prompts accept only values that are non-empty after trim
addRedirect(slug, url) ==
    LET doc == Doc(clock, CastSlug(toLowerCase(trim(slug))), CastUrl(trim(url)),
                   currentUser, clock)
        saved == saveNew(store, legacyIndex, doc)
    IN  /\ currentUser # NoUser
        /\ trim(slug) # <<>> /\ trim(url) # <<>>
        /\ saved.error # "" \/ clock <= MaxRecords
        /\ store' = saved.store
        /\ clock' = IF saved.error = "" THEN clock + 1 ELSE clock
        /\ resp' = Console("cli", "add", currentUser, slug, url, IF saved.error = "" THEN clock ELSE 0,
                           IF saved.error = "" THEN "Created"
                           ELSE IF saved.code = DuplicateKey THEN "Conflict" ELSE "Error")
        /\ UNCHANGED <<req, legacyIndex, isActive, session, currentUser>>

\* editRedirect: the record is chosen by slug among the user's records and only
\* its url is prompted for
EditRedirectSave(st, idx, user, selectedSlug, newUrl) ==
    LET redirect == findOneBySlug(st, selectedSlug, user)
        loaded == CHOOSE r \in redirect : TRUE
        saved == saveLoaded(st, idx, loaded, loaded.slug, trim(newUrl))
    IN  [store |-> saved.store,
         resp |-> Console("cli", "edit", user, selectedSlug, newUrl, loaded.id,
                          IF saved.error = "" THEN "Updated" ELSE "Error")]

editRedirect(selectedSlug, newUrl) ==
    LET redirect == findOneBySlug(store, selectedSlug, currentUser)
        out == EditRedirectSave(store, legacyIndex, currentUser, selectedSlug, newUrl)
    IN  /\ currentUser # NoUser
        /\ redirect # {}
        /\ trim(newUrl) # <<>>
        /\ store' = out.store
        /\ resp' = out.resp
        /\ UNCHANGED <<req, clock, legacyIndex, isActive, session, currentUser>>

\* deleteRedirect, confirmed
deleteRedirect(selectedSlug) ==
    LET redirect == findOneBySlug(store, selectedSlug, currentUser)
    IN  /\ currentUser # NoUser
        /\ redirect # {}
        /\ store' = deleteOne(store, redirect)
        /\ resp' = Console("cli", "delete", currentUser, selectedSlug, <<>>,
                           (CHOOSE r \in redirect : TRUE).id, "Deleted")
        /\ UNCHANGED <<req, clock, legacyIndex, isActive, session, currentUser>>

\* listRedirects
listRedirects ==
    /\ currentUser # NoUser
    /\ resp' = [Console("cli", "list", currentUser, <<>>, <<>>, 0, "Listed")
                   EXCEPT !.list = GetDashboard(store, currentUser)]
    /\ UNCHANGED <<req, store, clock, legacyIndex, isActive, session, currentUser>>

----------------------------------------------------------------------------
\* cli.js with the earlier Redirect model: no users, `slug` unique on its own

\* connecting compiles the model, which asks the collection for its unique
\* index on slug; the build fails while two documents share a slug
legacyConnect ==
    /\ \A r1, r2 \in store : r1.slug = r2.slug => r1 = r2
    /\ legacyIndex' = TRUE
    /\ UNCHANGED <<req, store, clock, isActive, session, currentUser, resp>>

\* addRedirect: the document has no userId
legacyAddRedirect(slug, url) ==
    LET doc == Doc(clock, CastSlug(trim(slug)), CastUrl(trim(url)), NoUser, clock)
        saved == saveNew(store, legacyIndex, doc)
    IN  /\ trim(slug) # <<>> /\ trim(url) # <<>>
        /\ saved.error # "" \/ clock <= MaxRecords
        /\ store' = saved.store
        /\ clock' = IF saved.error = "" THEN clock + 1 ELSE clock
        /\ resp' = Console("legacy", "add", NoUser, slug, url, IF saved.error = "" THEN clock ELSE 0,
                           IF saved.error = "" THEN "Created"
                           ELSE IF saved.code = DuplicateKey THEN "Conflict" ELSE "Error")
        /\ UNCHANGED <<req, legacyIndex, isActive, session, currentUser>>

\* editRedirect: Redirect.findOne({ slug }) returns a document of any owner
legacyEditRedirect(loaded, newUrl) ==
    LET saved == saveLoaded(store, legacyIndex, loaded, loaded.slug, trim(newUrl))
    IN  /\ loaded \in store
        /\ trim(newUrl) # <<>>
        /\ store' = saved.store
        /\ resp' = Console("legacy", "edit", NoUser, loaded.slug, newUrl, loaded.id,
                           IF saved.error = "" THEN "Updated" ELSE "Error")
        /\ UNCHANGED <<req, clock, legacyIndex, isActive, session, currentUser>>

\* deleteRedirect: Redirect.deleteOne({ slug }) deletes a document of any owner
legacyDeleteRedirect(victim) ==
    /\ victim \in store
    /\ store' = store \ {victim}
    /\ resp' = Console("legacy", "delete", NoUser, victim.slug, <<>>, victim.id, "Deleted")
    /\ UNCHANGED <<req, clock, legacyIndex, isActive, session, currentUser>>

\* listRedirects: Redirect.find() lists the documents of every owner
legacyListRedirects ==
    /\ resp' = [Console("legacy", "list", NoUser, <<>>, <<>>, 0, "Listed")
                   EXCEPT !.list = SortBySlug(store)]
    /\ UNCHANGED <<req, store, clock, legacyIndex, isActive, session, currentUser>>

----------------------------------------------------------------------------

Next ==
    \/ \E c \in Clients, slug \in PathSlugs : Resolve(c, slug)
    \/ \E c \in Clients, f \in FormInputs : Add(c, f[1], f[2])
    \/ \E c \in Clients, id \in Ids, f \in FormInputs : Edit(c, id, f[1], f[2])
    \/ \E c \in Clients, id \in Ids : Remove(c, id)
    \/ \E c \in Clients, u \in Users : Login(c, u)
    \/ \E c \in Clients : Logout(c)
    \/ \E u \in Users : toggleUserStatus(u)

Spec == Init /\ [][Next]_vars

\* Every entry point that writes the collection
StoredSlugs == {CastSlug(f[1]) : f \in ValidSlugInputs \X {0}}

\* The state after both users were created with "Activate user immediately?"
\* and the first of them logged in
InitAll ==
    /\ store = {}
    /\ clock = 1
    /\ legacyIndex = FALSE
    /\ isActive = [u \in Users |-> TRUE]
    /\ session = [c \in Clients |-> "u1"]
    /\ currentUser = NoUser
    /\ resp = NoResponse
    /\ req = [k \in Requests |-> Idle]

NextAll ==
    \/ \E c \in Clients, f \in FormInputs : Add(c, f[1], f[2])
    \/ \E c \in Clients, id \in Ids, f \in ValidSlugInputs \X ValidUrlInputs :
          Edit(c, id, f[1], f[2])
    \/ \E c \in Clients, id \in Ids : Remove(c, id)
    \/ \E u \in Users : selectUser(u)
    \/ \E slug \in ValidSlugInputs, url \in ValidUrlInputs : addRedirect(slug, url)
    \/ \E slug \in StoredSlugs, url \in ValidUrlInputs : editRedirect(slug, url)
    \/ \E slug \in StoredSlugs : deleteRedirect(slug)
    \/ legacyConnect
    \/ \E slug \in ValidSlugInputs, url \in ValidUrlInputs : legacyAddRedirect(slug, url)
    \/ \E r \in store, url \in ValidUrlInputs : legacyEditRedirect(r, url)
    \/ \E r \in store : legacyDeleteRedirect(r)

SpecAll == InitAll /\ [][NextAll]_vars

\* Resolution of one stored record, over the destinations a record can hold
Destinations ==
    {p \o r : p \in {<<>>, Str_http, Str_https,
                     <<"h", "t", "t", "p", ":", "/">>,
                     <<"h", "t", "t", "p", "s", ":", "/">>,
                     <<"H", "T", "T", "P", ":", "/", "/">>,
                     <<"H", "t", "t", "p", "s", ":", "/", "/">>,
                     <<"h", "t", "t", "p">>,
                     <<"f", "t", "p", ":", "/", "/">>,
                     <<"/", "/">>},
              r \in {<<"x">>, <<"x", "/", "y">>}}

InitNorm ==
    /\ \E d \in Destinations : store = {Doc(1, Str_a, d, "u1", 1)}
    /\ clock = 2
    /\ legacyIndex = FALSE
    /\ isActive = [u \in Users |-> TRUE]
    /\ session = [c \in Clients |-> "u1"]
    /\ currentUser = NoUser
    /\ resp = NoResponse
    /\ req = [k \in Requests |-> Idle]

NextNorm == \E c \in Clients, slug \in PathSlugs : Resolve(c, slug)

SpecNorm == InitNorm /\ [][NextNorm]_vars

\* The web application from the moment a remove has completed: the owner had
\* added "a" and "b" and has just removed "a"
BeforeRemove == {Doc(1, Str_a, Url_x, "u1", 1), Doc(2, Str_b, Url_x, "u1", 2)}

InitDel ==
    LET out == PostRedirectsIdDelete(BeforeRemove, "u1", 1)
    IN  /\ store = out.store
        /\ resp = out.resp
        /\ clock = Cardinality(BeforeRemove) + 1
        /\ legacyIndex = FALSE
        /\ isActive = [u \in Users |-> TRUE]
        /\ session = [c \in Clients |-> "u1"]
        /\ currentUser = NoUser
        /\ req = [k \in Requests |-> Idle]

NextDel ==
    \/ \E c \in Clients, slug \in PathSlugs : Resolve(c, slug)
    \/ \E c \in Clients, f \in FormInputs : Add(c, f[1], f[2])
    \/ \E c \in Clients, id \in Ids, f \in FormInputs : Edit(c, id, f[1], f[2])
    \/ \E c \in Clients, id \in Ids : Remove(c, id)
    \/ \E c \in Clients, u \in Users : Login(c, u)
    \/ \E c \in Clients : Logout(c)

SpecDel == InitDel /\ [][NextDel]_vars

----------------------------------------------------------------------------
\* Web requests during which one call to the database fails (connection loss).
\* `step` names the call that throws; the response records it as the logs do.

\* getCurrentUser: User.findById throws, the catch block destroys the session and
\* clears req.user; the route then finds nobody logged in
FailedUserLookup(c, kind, slug, id) ==
    /\ session[c] # NoUser
    /\ session' = [session EXCEPT ![c] = NoUser]
    /\ resp' = [Denied(kind, slug, id) EXCEPT !.fault = "user"]
    /\ UNCHANGED <<req, store, clock, legacyIndex, isActive, currentUser>>

\* the catch block of a handler of routes/redirects.js
FailedHandler(c, kind, slug, url, id, step) ==
    LET user == getCurrentUser(session[c], isActive)
    IN  /\ requireAuth(session[c], user)
        /\ Middleware(c)
        /\ resp' = [Response(kind, user, slug, url, id, "Error", StatusOK, <<>>, 0)
                       EXCEPT !.fault = step]
        /\ UNCHANGED <<req, store, clock, legacyIndex, isActive, currentUser>>

\* GET /:slug
ResolveFailing(c, slug, step) ==
    LET user == getCurrentUser(session[c], isActive)
    IN  IF step = "user"
        THEN FailedUserLookup(c, "resolve", slug, 0)
        ELSE /\ step = "find"
             /\ requireAuth(session[c], user)
             /\ Middleware(c)
             /\ resp' = [Response("resolve", user, slug, <<>>, 0, "ServerError",
                                  StatusServerError, <<>>, 0) EXCEPT !.fault = step]
             /\ UNCHANGED <<req, store, clock, legacyIndex, isActive, currentUser>>

\* POST /redirects
AddFailing(c, slug, url, step) ==
    IF step = "user"
    THEN FailedUserLookup(c, "add", <<>>, 0)
    ELSE /\ step = "save"
         /\ Required(CastSlug(toLowerCase(trim(slug)))) /\ Required(CastUrl(trim(url)))
         /\ FailedHandler(c, "add", slug, url, 0, step)

\* POST /redirects/:id
EditFailing(c, id, slug, url, step) ==
    LET user == getCurrentUser(session[c], isActive)
    IN  IF step = "user"
        THEN FailedUserLookup(c, "edit", <<>>, id)
        ELSE /\ step \in {"find", "save"}
             /\ step = "save"
                   => /\ findOneById(store, id, user) # {}
                      /\ Required(CastSlug(toLowerCase(trim(slug)))) /\ Required(CastUrl(trim(url)))
             /\ FailedHandler(c, "edit", slug, url, id, step)

\* POST /redirects/:id/delete
RemoveFailing(c, id, step) ==
    LET user == getCurrentUser(session[c], isActive)
    IN  IF step = "user"
        THEN FailedUserLookup(c, "delete", <<>>, id)
        ELSE /\ step \in {"find", "delete"}
             /\ step = "delete" => findOneById(store, id, user) # {}
             /\ FailedHandler(c, "delete", <<>>, <<>>, id, step)

NextFault ==
    \/ \E c \in Clients, f \in ValidSlugInputs \X ValidUrlInputs : Add(c, f[1], f[2])
    \/ \E c \in Clients, u \in Users : Login(c, u)
    \/ \E c \in Clients, slug \in PathSlugs, step \in {"user", "find"} :
          ResolveFailing(c, slug, step)
    \/ \E c \in Clients, f \in ValidSlugInputs \X ValidUrlInputs, step \in {"user", "save"} :
          AddFailing(c, f[1], f[2], step)
    \/ \E c \in Clients, id \in Ids, f \in ValidSlugInputs \X ValidUrlInputs,
          step \in {"user", "find", "save"} : EditFailing(c, id, f[1], f[2], step)
    \/ \E c \in Clients, id \in Ids, step \in {"user", "find", "delete"} :
          RemoveFailing(c, id, step)

SpecFault == InitAll /\ [][NextFault]_vars

\* The command-line program of a selected user while users are switched on and off
NextCli ==
    \/ \E u \in Users : selectUser(u)
    \/ \E u \in Users : toggleUserStatus(u)
    \/ \E slug \in ValidSlugInputs, url \in ValidUrlInputs : addRedirect(slug, url)
    \/ \E slug \in StoredSlugs, url \in ValidUrlInputs : editRedirect(slug, url)
    \/ \E slug \in StoredSlugs : deleteRedirect(slug)
    \/ listRedirects
    \/ \E c \in Clients, f \in ValidSlugInputs \X ValidUrlInputs : Add(c, f[1], f[2])

SpecCli == InitAll /\ [][NextCli]_vars

\* Listing, over the collections that the indexes allow
ListSlugs == {<<"a">>, <<"a", "b">>, <<"b">>, <<"b", "a">>}

ListStores ==
    LET Entry == {<<>>} \cup (ListSlugs \X Users)
        docs(f) == {Doc(i, f[i][1], Url_x, f[i][2], i) : i \in {j \in Ids : f[j] # <<>>}}
    IN  {docs(f) : f \in {g \in [Ids -> Entry] :
                             \A i, j \in Ids : (g[i] # <<>> /\ g[i] = g[j]) => i = j}}

InitList ==
    /\ store \in ListStores
    /\ clock = MaxRecords + 1
    /\ legacyIndex = FALSE
    /\ isActive = [u \in Users |-> TRUE]
    /\ session = [c \in Clients |-> "u1"]
    /\ currentUser = NoUser
    /\ resp = NoResponse
    /\ req = [k \in Requests |-> Idle]

NextList ==
    \/ \E c \in Clients : List(c)
    \/ \E u \in Users : selectUser(u)
    \/ listRedirects
    \/ legacyListRedirects

SpecList == InitList /\ [][NextList]_vars

----------------------------------------------------------------------------
\* Web requests step by step: a handler runs up to its next await, and the
\* handlers of other requests run in between.

\* POST /redirects: getCurrentUser and requireAuth
AddBegin(k, c, slug, url) ==
    LET user == getCurrentUser(session[c], isActive)
    IN  /\ req[k].pc = "idle"
        /\ Middleware(c)
        /\ IF requireAuth(session[c], user)
           THEN /\ req' = [req EXCEPT ![k] = InFlight("handler", "add", user, 0, slug, url,
                                                      NoDoc, "none")]
                /\ resp' = resp
           ELSE /\ req' = req
                /\ resp' = Denied("add", <<>>, 0)
        /\ UNCHANGED <<store, clock, legacyIndex, isActive, currentUser>>

\* POST /redirects: await redirect.save() and the response
AddSave(k) ==
    LET r == req[k]
        out == PostRedirects(store, legacyIndex, clock, r.user, r.slug, r.url)
    IN  /\ r.pc = "handler" /\ r.kind = "add"
        /\ out.store = store \/ clock <= MaxRecords
        /\ store' = out.store
        /\ clock' = IF out.store = store THEN clock ELSE clock + 1
        /\ resp' = out.resp
        /\ req' = [req EXCEPT ![k].pc = "done", ![k].outcome = out.resp.outcome]
        /\ UNCHANGED <<legacyIndex, isActive, session, currentUser>>

\* POST /redirects/:id: getCurrentUser and requireAuth
EditBegin(k, c, id, slug, url) ==
    LET user == getCurrentUser(session[c], isActive)
    IN  /\ req[k].pc = "idle"
        /\ Middleware(c)
        /\ IF requireAuth(session[c], user)
           THEN /\ req' = [req EXCEPT ![k] = InFlight("handler", "edit", user, id, slug, url,
                                                      NoDoc, "none")]
                /\ resp' = resp
           ELSE /\ req' = req
                /\ resp' = Denied("edit", <<>>, id)
        /\ UNCHANGED <<store, clock, legacyIndex, isActive, currentUser>>

\* POST /redirects/:id: await Redirect.findOne({ _id, userId })
EditFind(k) ==
    LET r == req[k]
        redirect == findOneById(store, r.id, r.user)
    IN  /\ r.pc = "handler" /\ r.kind = "edit"
        /\ IF redirect = {}
           THEN /\ resp' = PostRedirectsId(store, legacyIndex, r.user, r.id, r.slug, r.url).resp
                /\ req' = [req EXCEPT ![k].pc = "done", ![k].outcome = "NotFound"]
           ELSE /\ resp' = resp
                /\ req' = [req EXCEPT ![k].pc = "loaded",
                                      ![k].loaded = CHOOSE x \in redirect : TRUE]
        /\ UNCHANGED <<store, clock, legacyIndex, isActive, session, currentUser>>

\* POST /redirects/:id: await redirect.save() and the response
EditSave(k) ==
    LET r == req[k]
        out == PostRedirectsIdSave(store, legacyIndex, r.user, r.loaded, r.slug, r.url)
    IN  /\ r.pc = "loaded" /\ r.kind = "edit"
        /\ store' = out.store
        /\ resp' = out.resp
        /\ req' = [req EXCEPT ![k].pc = "done", ![k].outcome = out.resp.outcome]
        /\ UNCHANGED <<clock, legacyIndex, isActive, session, currentUser>>

\* the response was sent and the request is over
Close(k) ==
    /\ req[k].pc = "done"
    /\ req' = [req EXCEPT ![k] = Idle]
    /\ UNCHANGED <<store, clock, legacyIndex, isActive, session, currentUser, resp>>

\* GET /:slug: getCurrentUser and the check that somebody active is logged in
ResolveBegin(k, c, slug) ==
    LET user == getCurrentUser(session[c], isActive)
    IN  /\ req[k].pc = "idle"
        /\ Middleware(c)
        /\ IF requireAuth(session[c], user)
           THEN /\ req' = [req EXCEPT ![k] = InFlight("handler", "resolve", user, 0, slug,
                                                      <<>>, NoDoc, "none")]
                /\ resp' = resp
           ELSE /\ req' = req
                /\ resp' = Denied("resolve", slug, 0)
        /\ UNCHANGED <<store, clock, legacyIndex, isActive, currentUser>>

\* GET /:slug: await Redirect.findOne and the response
ResolveFind(k) ==
    LET r == req[k]
        out == GetSlug(store, r.user, r.slug)
    IN  /\ r.pc = "handler" /\ r.kind = "resolve"
        /\ resp' = out
        /\ req' = [req EXCEPT ![k].pc = "done", ![k].outcome = out.outcome]
        /\ UNCHANGED <<store, clock, legacyIndex, isActive, session, currentUser>>

\* POST /redirects/:id/delete: getCurrentUser and requireAuth
RemoveBegin(k, c, id) ==
    LET user == getCurrentUser(session[c], isActive)
    IN  /\ req[k].pc = "idle"
        /\ Middleware(c)
        /\ IF requireAuth(session[c], user)
           THEN /\ req' = [req EXCEPT ![k] = InFlight("handler", "delete", user, id, <<>>,
                                                      <<>>, NoDoc, "none")]
                /\ resp' = resp
           ELSE /\ req' = req
                /\ resp' = Denied("delete", <<>>, id)
        /\ UNCHANGED <<store, clock, legacyIndex, isActive, currentUser>>

\* POST /redirects/:id/delete: await Redirect.findOne({ _id, userId })
RemoveFind(k) ==
    LET r == req[k]
        redirect == findOneById(store, r.id, r.user)
    IN  /\ r.pc = "handler" /\ r.kind = "delete"
        /\ IF redirect = {}
           THEN /\ resp' = PostRedirectsIdDelete(store, r.user, r.id).resp
                /\ req' = [req EXCEPT ![k].pc = "done", ![k].outcome = "NotFound"]
           ELSE /\ resp' = resp
                /\ req' = [req EXCEPT ![k].pc = "loaded",
                                      ![k].loaded = CHOOSE x \in redirect : TRUE]
        /\ UNCHANGED <<store, clock, legacyIndex, isActive, session, currentUser>>

\* POST /redirects/:id/delete: await Redirect.deleteOne and the response
RemoveWrite(k) ==
    LET r == req[k]
        out == PostRedirectsIdDeleteWrite(store, r.user, r.loaded)
    IN  /\ r.pc = "loaded" /\ r.kind = "delete"
        /\ store' = out.store
        /\ resp' = out.resp
        /\ req' = [req EXCEPT ![k].pc = "done", ![k].outcome = out.resp.outcome]
        /\ UNCHANGED <<clock, legacyIndex, isActive, session, currentUser>>

ConcInputs == {Str_a, Str_b} \X {Url_x}

InitConc == InitAll

NextConc ==
    \/ \E k \in Requests, c \in Clients, f \in ConcInputs : AddBegin(k, c, f[1], f[2])
    \/ \E k \in Requests : AddSave(k)
    \/ \E k \in Requests, c \in Clients, id \in Ids, f \in ConcInputs :
          EditBegin(k, c, id, f[1], f[2])
    \/ \E k \in Requests : EditFind(k)
    \/ \E k \in Requests : EditSave(k)
    \/ \E k \in Requests : Close(k)

SpecConc == InitConc /\ [][NextConc]_vars

\* GET /redirects/:id/edit
EditForm(c, id) ==
    LET user == getCurrentUser(session[c], isActive)
    IN  /\ Middleware(c)
        /\ resp' = IF requireAuth(session[c], user)
                   THEN GetRedirectsIdEdit(store, user, id)
                   ELSE Denied("form", <<>>, id)
        /\ UNCHANGED <<req, store, clock, legacyIndex, isActive, currentUser>>

\* Writing mappings, resolving them and looking at them
NextView ==
    \/ \E c \in Clients, slug \in PathSlugs : Resolve(c, slug)
    \/ \E c \in Clients, f \in FormInputs : Add(c, f[1], f[2])
    \/ \E c \in Clients, id \in Ids, f \in FormInputs : Edit(c, id, f[1], f[2])
    \/ \E c \in Clients : List(c)
    \/ \E c \in Clients, id \in Ids : EditForm(c, id)
    \/ \E c \in Clients, u \in Users : Login(c, u)
    \/ \E c \in Clients : Logout(c)

SpecView == InitAll /\ [][NextView]_vars

\* Requests step by step while users are switched off and on
NextRace ==
    \/ \E k \in Requests, c \in Clients, f \in ConcInputs : AddBegin(k, c, f[1], f[2])
    \/ \E k \in Requests : AddSave(k)
    \/ \E k \in Requests, c \in Clients, slug \in {Str_a, Str_A} : ResolveBegin(k, c, slug)
    \/ \E k \in Requests : ResolveFind(k)
    \/ \E k \in Requests, c \in Clients, id \in Ids, f \in ConcInputs :
          EditBegin(k, c, id, f[1], f[2])
    \/ \E k \in Requests : EditFind(k)
    \/ \E k \in Requests : EditSave(k)
    \/ \E k \in Requests : Close(k)
    \/ \E u \in Users : toggleUserStatus(u)
    \/ \E c \in Clients, u \in Users : Login(c, u)

SpecRace == InitAll /\ [][NextRace]_vars

\* Concurrent removes, with adds to have something to remove
NextConcDel ==
    \/ \E c \in Clients, f \in ConcInputs : Add(c, f[1], f[2])
    \/ \E k \in Requests, c \in Clients, id \in Ids : RemoveBegin(k, c, id)
    \/ \E k \in Requests : RemoveFind(k)
    \/ \E k \in Requests : RemoveWrite(k)
    \/ \E k \in Requests : Close(k)

SpecConcDel == InitAll /\ [][NextConcDel]_vars



----------------------------------------------------------------------------
\* Properties

\* the slug a create or an edit stores for the form input `slug`
StoredSlug(slug) == CastSlug(toLowerCase(trim(slug)))

Holds(st, user, slug) == \E r \in st : r.userId = user /\ r.slug = slug

\* C1: no two distinct records have the same ownerId and the same lowercase slug
C1_UniquePerOwner ==
    \A r1, r2 \in store :
        (r1.userId = r2.userId /\ toLowerCase(r1.slug) = toLowerCase(r2.slug)) => r1 = r2

\* C1 witness: an owner holds two records and a write of his was just rejected
\* as a duplicate
C1_Witness ==
    /\ resp.outcome = "Conflict"
    /\ \E r1, r2 \in store : r1 # r2 /\ r1.userId = resp.user /\ r2.userId = resp.user

\* C2: an add is rejected as a duplicate only when the adding owner himself holds
\* the slug; a record of another owner never makes a create fail
C2_NamespacePartition ==
    (resp.kind = "add" /\ resp.via \in {"web", "cli"} /\ resp.outcome = "Conflict")
        => Holds(store, resp.user, StoredSlug(resp.slug))

HeldByOther(rs) ==
    \E r \in store :
        r.userId = rs.user /\ r.slug = StoredSlug(rs.slug) /\ r.id # rs.id

\* C3 as stated: an add by an owner who holds the slug ends in the conflict
\* outcome, whatever the destination is
C3_ConflictAnyDestination ==
    (resp.kind = "add" /\ resp.user # NoUser /\ resp.slug # Missing /\ HeldByOther(resp))
        => resp.outcome = "Conflict"

\* C3 amended: an add, from the web form or the CLI, by an owner who holds the
\* slug ends in the conflict outcome, whatever the non-empty destination is, and
\* a conflict outcome leaves the store unchanged
C3_ConflictOnSecondAdd ==
    /\ [](  (/\ resp.kind = "add" /\ resp.user # NoUser /\ resp.slug # Missing
             /\ HeldByOther(resp)
             /\ Required(resp.url) /\ Required(trim(resp.url)))
          => resp.outcome = "Conflict")
    /\ [][resp'.outcome = "Conflict" => store' = store]_vars

\* C3 witness: an add was rejected as a duplicate of a record of the same owner
\* that has another destination, and the slug was typed in another letter case
C3_Witness ==
    /\ resp.kind = "add" /\ resp.outcome = "Conflict"
    /\ resp.slug # StoredSlug(resp.slug)
    /\ \E r \in store :
          /\ r.userId = resp.user /\ r.slug = StoredSlug(resp.slug)
          /\ r.url # CastUrl(trim(resp.url))


\* C5: for an authenticated owner, a raw slug equal up to letter case to the slug
\* input S of one of his mappings resolves to that mapping
C5_CaseInsensitiveResolve ==
    (resp.kind = "resolve" /\ resp.user # NoUser)
        => \A S \in ValidSlugInputs, r \in store :
              (/\ toLowerCase(S) = toLowerCase(resp.slug)
               /\ r.userId = resp.user
               /\ r.slug = StoredSlug(S))
                  => (resp.outcome = "Redirect" /\ resp.id = r.id)

\* C5 witness: a slug typed in capitals resolved to a record stored in lower case
C5_Witness ==
    /\ resp.kind = "resolve" /\ resp.outcome = "Redirect"
    /\ resp.slug = Str_A
    /\ \E r \in store : r.id = resp.id /\ r.slug = Str_a

\* C6: a raw slug that differs from a stored slug of the owner only by leading or
\* trailing whitespace and letter case resolves to that record
C6_TrimmedResolve ==
    (resp.kind = "resolve" /\ resp.user # NoUser)
        => \A r \in store :
              (r.userId = resp.user /\ r.slug = trim(toLowerCase(resp.slug)))
                  => (resp.outcome = "Redirect" /\ resp.id = r.id)

\* C6 witness: a slug with surrounding whitespace resolved to a record
C6_Witness ==
    /\ resp.kind = "resolve" /\ resp.outcome = "Redirect"
    /\ resp.slug # trim(resp.slug)

\* C7: a web request (resolve, add, edit, delete) whose session names no user or
\* an inactive user is answered with the redirect to /login and writes nothing
C7_DeniedWithoutIdentity ==
    [][\A c \in Clients :
          (/\ session[c] = NoUser \/ ~isActive[session[c]]
           /\ resp'.via = "web"
           /\ resp'.kind \in {"resolve", "add", "edit", "delete"}
           /\ resp' # resp \/ session' # session)
              => (/\ resp'.outcome = "Denied"
                  /\ resp'.status = StatusFound
                  /\ resp'.target = <<"/", "login">>
                  /\ store' = store)]_vars

\* C7 witness: a resolve was denied although the requested slug is a stored slug
\* of a user, who is inactive
C7_Witness ==
    /\ resp.kind = "resolve" /\ resp.outcome = "Denied"
    /\ \E r \in store : r.slug = CastSlug(resp.slug) /\ ~isActive[r.userId]

\* C8: resolving a slug the authenticated identity does not own yields NotFound,
\* never Denied and never a redirect, even when another owner holds the slug
C8_NotFoundForForeignSlug ==
    (/\ resp.kind = "resolve" /\ resp.user # NoUser
     /\ ~Holds(store, resp.user, trim(toLowerCase(resp.slug))))
        => (/\ resp.outcome = "NotFound"
            /\ resp.status = StatusNotFound
            /\ resp.target = <<>>)

\* C8 witness: NotFound for a slug that a different owner holds
C8_Witness ==
    /\ resp.kind = "resolve" /\ resp.outcome = "NotFound"
    /\ \E r \in store : r.userId # resp.user /\ r.slug = trim(toLowerCase(resp.slug))

\* C9: what an identity's operations return depends only on the records it owns:
\* every operation returns the same on the store and on the store without the
\* other owners' records
C9_NonInterference ==
    \A i \in Users :
        LET own == {r \in store : r.userId = i}
        IN  /\ \A slug \in PathSlugs : GetSlug(store, i, slug) = GetSlug(own, i, slug)
            /\ \A f \in FormInputs :
                  PostRedirects(store, legacyIndex, clock, i, f[1], f[2]).resp
                      = PostRedirects(own, legacyIndex, clock, i, f[1], f[2]).resp
            /\ \A id \in Ids, f \in FormInputs :
                  PostRedirectsId(store, legacyIndex, i, id, f[1], f[2]).resp
                      = PostRedirectsId(own, legacyIndex, i, id, f[1], f[2]).resp
            /\ \A id \in Ids :
                  PostRedirectsIdDelete(store, i, id).resp
                      = PostRedirectsIdDelete(own, i, id).resp
            /\ GetDashboard(store, i) = GetDashboard(own, i)

HasScheme(d) ==
    \/ Len(d) >= 7 /\ SubSeq(d, 1, 7) = Str_http
    \/ Len(d) >= 8 /\ SubSeq(d, 1, 8) = Str_https

\* C10: the redirect target is the stored destination itself when that starts
\* with http:// or https://, and https:// followed by it otherwise
C10_DestinationNormalized ==
    resp.outcome = "Redirect"
        => \E r \in store :
              /\ r.id = resp.id
              /\ resp.target = IF HasScheme(r.url) THEN r.url ELSE Str_https \o r.url

\* C10 witness: a destination that begins with the letters http but has no
\* scheme separator got the prefix
C10_Witness ==
    /\ resp.outcome = "Redirect"
    /\ \E r \in store :
          /\ r.id = resp.id
          /\ r.url = <<"h", "t", "t", "p", ":", "/", "x">>
          /\ resp.target = Str_https \o r.url


\* an add, or an edit that changes the slug of the record it loaded
WritesSlug(r) ==
    /\ r.slug # Missing /\ r.url # Missing
    /\ \/ r.kind = "add"
       \/ r.kind = "edit" /\ r.loaded # NoDoc /\ r.loaded.slug # StoredSlug(r.slug)

\* C4 as stated: of the add and rename requests of one owner that are in flight
\* together and target the same slug, at most one succeeds
C4_AtMostOneSucceeds ==
    \A k, j \in Requests :
        (/\ k # j
         /\ req[k].pc = "done" /\ req[j].pc = "done"
         /\ WritesSlug(req[k]) /\ WritesSlug(req[j])
         /\ req[k].user = req[j].user
         /\ StoredSlug(req[k].slug) = StoredSlug(req[j].slug)
         /\ req[k].outcome \in {"Created", "Updated"})
            => req[j].outcome \notin {"Created", "Updated"}

\* C4 amended: an add or a rename to slug s succeeds exactly when, at the instant
\* of its one write, no other record of the owner holds s, and ends with the
\* conflict outcome and no change otherwise; no interleaving leaves an owner with
\* two records of one slug
C4_OneWriteDecides ==
    /\ [](\A r1, r2 \in store : (r1.userId = r2.userId /\ r1.slug = r2.slug) => r1 = r2)
    /\ [][\A k \in Requests :
            (/\ req[k].pc \in {"handler", "loaded"} /\ req'[k].pc = "done"
             /\ WritesSlug(req[k]))
                => LET s == StoredSlug(req[k].slug)
                       taken == \E r \in store : /\ r.userId = req[k].user
                                                 /\ r.slug = s
                                                 /\ r.id # req[k].loaded.id
                   IN  IF taken
                       THEN req'[k].outcome = "Conflict" /\ store' = store
                       ELSE /\ req'[k].outcome \in {"Created", "Updated"}
                            /\ \E r \in store' : /\ r.userId = req[k].user /\ r.slug = s
                                                 /\ r.id = resp'.id]_vars

\* C4 witness: an add and a rename of one owner were in flight together for the
\* same slug; one succeeded and the other got the conflict
C4_Witness ==
    \E k, j \in Requests :
        /\ req[k].pc = "done" /\ req[j].pc = "done"
        /\ req[k].kind = "add" /\ req[j].kind = "edit"
        /\ WritesSlug(req[j])
        /\ req[k].user = req[j].user
        /\ StoredSlug(req[k].slug) = StoredSlug(req[j].slug)
        /\ req[k].outcome = "Created" /\ req[j].outcome = "Conflict"


\* the slug a lookup searches for the path segment `slug`
LookupSlug(slug) == CastSlug(toLowerCase(slug))

\* C11: a resolution that hits a record is answered with status 301 and a cache
\* directive of max-age 300; no other response carries the status or the directive
C11_PermanentRedirectCached ==
    LET hit == /\ resp.kind = "resolve" /\ resp.user # NoUser
               /\ Holds(store, resp.user, LookupSlug(resp.slug))
    IN  IF hit
        THEN /\ resp.outcome = "Redirect"
             /\ resp.status = StatusMovedPermanently
             /\ resp.maxAge = CacheMaxAge
        ELSE resp.status # StatusMovedPermanently /\ resp.maxAge = 0

\* C11 witness: a hit, answered 301 with max-age 300
C11_Witness ==
    /\ resp.kind = "resolve" /\ resp.outcome = "Redirect"
    /\ resp.status = 301 /\ resp.maxAge = 300

\* a step that removed, created or renamed so that `user` holds `slug` afterwards
Regained(user, slug) == ~Holds(store, user, slug) /\ Holds(store', user, slug)

RemoveLeavesNotFound ==
    /\ (resp' # resp /\ resp'.kind = "delete" /\ resp'.outcome = "Deleted")
          => /\ ~Holds(store', resp'.user, resp'.slug)
             /\ \A slug \in PathSlugs :
                   LookupSlug(slug) = resp'.slug
                       => GetSlug(store', resp'.user, slug).outcome = "NotFound"
    /\ (resp'.kind = "resolve" /\ resp'.user # NoUser
            /\ ~Holds(store', resp'.user, LookupSlug(resp'.slug)))
          => resp'.outcome = "NotFound"

\* C12 as stated: the owner removed "a"; as long as he has added nothing since,
\* every resolve of "a" by him yields NotFound
C12_NotFoundUntilAddedAgain ==
    (/\ resp.kind = "resolve" /\ resp.user = "u1"
     /\ LookupSlug(resp.slug) = Str_a
     /\ clock = Cardinality(BeforeRemove) + 1)
        => resp.outcome = "NotFound"

\* C12 amended: after a remove completed the owner's resolves of the slug yield
\* NotFound, and the slug comes back for the owner only by an add of his or by an
\* edit of his that renames another of his mappings to it
C12_NotFoundUntilHeldAgain ==
    [][/\ RemoveLeavesNotFound
       /\ \A u \in Users, s \in StoredSlugs :
             Regained(u, s)
                 => (/\ resp'.kind \in {"add", "edit"}
                     /\ resp'.outcome \in {"Created", "Updated"}
                     /\ resp'.user = u /\ StoredSlug(resp'.slug) = s)]_vars

\* C12 witness: after the remove of "a" the owner, who still holds another
\* mapping and has added nothing, resolved "A" and got NotFound
C12_Witness ==
    /\ resp.kind = "resolve" /\ resp.outcome = "NotFound"
    /\ resp.slug = Str_A /\ resp.user = "u1"
    /\ \E r \in store : r.userId = resp.user
    /\ clock = Cardinality(BeforeRemove) + 1

\* C13: no step changes the userId or the createdAt of a record that stays in the
\* store; a record's slug changes only by a web edit that asks for the new slug,
\* and a step changes no record but the one it was addressed to
C13_OwnerAndCreationKept ==
    [][\A r \in store :
          \/ r \in store'
          \/ /\ resp'.id = r.id
             /\ resp'.kind \in {"edit", "delete"}
             /\ \A n \in store' :
                   n.id = r.id
                       => /\ n.userId = r.userId
                          /\ n.createdAt = r.createdAt
                          /\ n.slug # r.slug
                                => /\ resp'.via = "web"
                                   /\ n.slug = StoredSlug(resp'.slug)
                          /\ StoredSlug(resp'.slug) = r.slug
                                => n = [r EXCEPT !.url = CastUrl(trim(resp'.url))]]_vars

\* C13 witness: a command-line edit changed the destination of a record that was
\* created earlier by its owner
C13_Witness ==
    /\ resp.kind = "edit" /\ resp.via = "cli" /\ resp.outcome = "Updated"
    /\ \E r \in store : /\ r.id = resp.id /\ r.userId = resp.user
                        /\ r.createdAt = r.id
                        /\ r.url = Str_http \o Url_x

\* C14: a web edit that renames a record to a slug held by another record of the
\* same owner ends with the conflict outcome and changes nothing, whatever
\* destination it supplied
C14_RenameConflictKeepsBoth ==
    [][(/\ resp' # resp
        /\ resp'.kind = "edit" /\ resp'.via = "web"
        /\ Required(trim(resp'.url))
        /\ \E r, o \in store :
              /\ r.id = resp'.id /\ r.userId = resp'.user
              /\ o.id # r.id /\ o.userId = r.userId
              /\ o.slug = StoredSlug(resp'.slug))
          => (resp'.outcome = "Conflict" /\ store' = store)]_vars

\* C14 witness: the rejected rename also supplied a destination that the record
\* does not have
C14_Witness ==
    /\ resp.kind = "edit" /\ resp.via = "web" /\ resp.outcome = "Conflict"
    /\ \E r, o \in store :
          /\ r.id = resp.id /\ o.id # r.id /\ o.userId = r.userId
          /\ o.slug = StoredSlug(resp.slug) /\ r.slug # o.slug
          /\ r.url # CastUrl(trim(resp.url))


\* C15: a web add or edit whose slug or destination is empty after trimming ends
\* with a validation outcome of its own, not with the conflict outcome and not
\* with the answer given to a system error ("Error", the catch-all branch of the
\* handler, or no answer at all)
C15_ValidationOutcome ==
    (/\ resp.kind \in {"add", "edit"} /\ resp.via = "web"
     /\ resp.user # NoUser /\ resp.outcome # "NotFound"
     /\ resp.slug # Missing /\ resp.url # Missing
     /\ trim(resp.slug) = <<>> \/ trim(resp.url) = <<>>)
        => resp.outcome \notin {"Created", "Updated", "Conflict", "Error", "Unanswered"}

C17_OwnershipScoped ==
    [][store' # store
          => /\ resp'.user \in Users
             /\ \A r \in (store \ store') \cup (store' \ store) : r.userId = resp'.user]_vars

\* C18: a mapping is written only on behalf of an identity that is active when the
\* write runs
C18_ActiveWhenWritten ==
    [][store' # store => (resp'.user \in Users /\ isActive[resp'.user])]_vars

\* slug ascending, written out for the slugs that are listed
SlugPosition(slug) ==
    CASE slug = <<"a">> -> 1
      [] slug = <<"a", "b">> -> 2
      [] slug = <<"b">> -> 3
      [] slug = <<"b", "a">> -> 4

\* C19: the list for identity i, on the web and in the user-scoped command-line
\* program, holds exactly the records owned by i, each once, by ascending slug
C19_ListOwnedSorted ==
    (resp.kind = "list" /\ resp.via \in {"web", "cli"} /\ resp.outcome = "Listed")
        => LET L == resp.list
           IN  /\ {L[n] : n \in 1..Len(L)} = {r \in store : r.userId = resp.user}
               /\ \A m, n \in 1..Len(L) :
                     m < n => SlugPosition(L[m].slug) < SlugPosition(L[n].slug)

\* C19 witness: a list of two records whose order by slug is not the order of
\* their creation
C19_Witness ==
    /\ resp.kind = "list" /\ resp.outcome = "Listed"
    /\ Len(resp.list) = 2
    /\ resp.list[1].id > resp.list[2].id
    /\ resp.list[1].slug = <<"a", "b">>


\* C20: once a web edit has completed, a resolve of the slug it asked for hits the
\* edited record and targets the destination it asked for, and after a rename a
\* resolve of the old slug yields NotFound; every resolve answers from the
\* collection as it is when the resolve runs
C20_LatestWriteResolved ==
    [][/\ (resp' # resp /\ resp'.kind = "edit" /\ resp'.via = "web"
              /\ resp'.outcome = "Updated")
            => \A old \in store :
                  old.id = resp'.id
                      => LET hit == GetSlug(store', resp'.user, resp'.slug)
                         IN  /\ hit.outcome = "Redirect"
                             /\ hit.id = old.id
                             /\ hit.target = addProtocol(CastUrl(trim(resp'.url)))
                             /\ old.slug # StoredSlug(resp'.slug)
                                   => GetSlug(store', resp'.user, old.slug).outcome
                                          = "NotFound"
       /\ (resp'.kind = "resolve" /\ resp'.user # NoUser)
            => resp' = GetSlug(store', resp'.user, resp'.slug)]_vars

\* C20 witness: the only record ever created was edited to slug "b" and a new
\* destination; "b" resolves to it and "a" resolves to NotFound
C20_Witness ==
    /\ resp.kind = "edit" /\ resp.outcome = "Updated" /\ clock = 2
    /\ \E r \in store :
          /\ r.id = resp.id
          /\ r.slug = Str_b /\ r.slug = StoredSlug(resp.slug)
          /\ r.url = Url_http_x /\ r.url = CastUrl(trim(resp.url))
          /\ GetSlug(store, resp.user, Str_b).target = r.url
    /\ GetSlug(store, resp.user, Str_a).outcome = "NotFound"


\* C21: for the same identity, the same store and the same inputs, an edit of a
\* record through the web form and through the command-line program ends with
\* the same store and the same kind of outcome, also when the edit asks for
\* another slug
C21_WebCliSameEdit ==
    \A r \in store, f \in ValidSlugInputs \X ValidUrlInputs :
        r.userId \in Users
            => LET web == PostRedirectsId(store, legacyIndex, r.userId, r.id, f[1], f[2])
                   cli == EditRedirectSave(store, legacyIndex, r.userId, r.slug, f[2])
               IN  /\ web.store = cli.store
                   /\ web.resp.outcome = cli.resp.outcome


\* C22: a request during which a call to the database failed ends with a generic
\* server-error outcome, not with Denied, NotFound or success, writes nothing and
\* leaves the session of the caller as it was
C22_FailureIsServerError ==
    [][(resp' # resp /\ resp'.fault # "none")
          => /\ resp'.outcome \in {"ServerError", "Error"}
             /\ session' = session
             /\ store' = store]_vars


\* C23: switching a user off or on changes no record; while a user is inactive
\* his records stay as they are and a resolve with his session is denied; a
\* resolve that redirects targets the destination the owner's record holds
C23_DeactivationKeepsMappings ==
    [][/\ isActive' # isActive => store' = store
       /\ \A u \in Users :
             ~isActive[u] => {r \in store' : r.userId = u} = {r \in store : r.userId = u}
       /\ (/\ resp' # resp /\ resp'.kind = "resolve"
           /\ \E c \in Clients : session[c] # NoUser /\ ~isActive[session[c]])
             => resp'.outcome = "Denied"
       /\ (resp'.kind = "resolve" /\ resp'.outcome = "Redirect")
             => \E r \in store' : /\ r.id = resp'.id /\ r.userId = resp'.user
                                  /\ resp'.target = addProtocol(r.url)]_vars

\* C23 witness: the owner of two records was switched off; his resolve was denied,
\* his session is gone and both records are still there
C23_Witness ==
    /\ resp.kind = "resolve" /\ resp.outcome = "Denied"
    /\ \A c \in Clients : session[c] = NoUser
    /\ \E r1, r2 \in store :
          /\ r1 # r2 /\ r1.userId = r2.userId /\ ~isActive[r1.userId]
          /\ r1.slug = LookupSlug(resp.slug)


\* C24: no web request returns a redirect or writes a mapping at a moment when
\* the identity it acts for is inactive
C24_RevalidatedBeforeActing ==
    [][(/\ resp' # resp /\ resp'.via = "web"
        /\ store' # store \/ resp'.outcome = "Redirect")
          => (resp'.user \in Users /\ isActive[resp'.user])]_vars

\* C27: of two remove requests of one owner for the same mapping that are in
\* flight together, only one reports the deletion
C27_OneRemoveReportsDeleted ==
    \A k, j \in Requests :
        (/\ k # j
         /\ req[k].pc = "done" /\ req[j].pc = "done"
         /\ req[k].kind = "delete" /\ req[j].kind = "delete"
         /\ req[k].user = req[j].user /\ req[k].id = req[j].id
         /\ req[k].outcome = "Deleted")
            => req[j].outcome = "NotFound"

\* C25: every stored mapping has a non-empty, lowercase slug without leading or
\* trailing whitespace and a non-empty destination without leading or trailing
\* whitespace, whichever entry point wrote it
C25_StoredFieldsNormalised ==
    \A r \in store :
        /\ r.slug # Missing /\ Len(r.slug) > 0
        /\ r.slug = toLowerCase(r.slug)
        /\ r.slug = trim(r.slug)
        /\ r.url # Missing /\ Len(r.url) > 0
        /\ r.url = trim(r.url)

C25_Witness ==
    /\ resp.kind = "add" /\ resp.outcome = "Created"
    /\ \E r \in store :
          /\ r.id = resp.id
          /\ r.slug # resp.slug /\ r.slug = toLowerCase(trim(resp.slug))
          /\ r.url # resp.url /\ r.url = trim(resp.url)

\* C26: a resolve, hit, miss or denied, leaves the store as it was; an add or
\* an edit stores the trimmed destination as typed; the scheme is put in front
\* of the returned target only, and the list and the edit form show the stored
\* records themselves
C26_ResolveReadOnly ==
    [][/\ resp'.kind = "resolve" => store' = store
       /\ (resp'.kind \in {"add", "edit"} /\ store' # store)
             => \E r \in store' \ store : r.url = trim(resp'.url)
       /\ (resp'.kind = "resolve" /\ resp'.outcome = "Redirect")
             => \E r \in store' :
                   /\ r.id = resp'.id
                   /\ resp'.target = IF HasScheme(r.url) THEN r.url ELSE Str_https \o r.url
       /\ (resp'.kind = "list" /\ resp'.outcome = "Listed")
             => /\ \A i \in 1..Len(resp'.list) : resp'.list[i] \in store'
                /\ Len(resp'.list) = Cardinality({r \in store' : r.userId = resp'.user})
       /\ (resp'.kind = "form" /\ resp'.outcome = "Form")
             => (resp'.list[1] \in store' /\ resp'.list[1].id = resp'.id)]_vars

C26_Witness ==
    /\ resp.kind = "resolve" /\ resp.outcome = "Redirect"
    /\ resp.target = Str_https \o Url_x
    /\ \E r \in store :
          /\ r.id = resp.id /\ r.url = Url_x
          /\ \E i \in 1..Len(GetDashboard(store, resp.user)) :
                GetDashboard(store, resp.user)[i] = r
          /\ GetRedirectsIdEdit(store, resp.user, r.id).list = <<r>>

\* C28: a request that carries the session of an inactive user destroys the
\* session and is not served; a destroyed session comes back only by a
\* successful login, whatever happens to the user's status meanwhile; and a
\* request is served for a user only under a live session of that active user
C28_DestroyedSessionStaysDead ==
    [][\A c \in Clients :
          /\ (session[c] # NoUser /\ ~isActive[session[c]] /\ isActive' = isActive)
                => /\ session'[c] = NoUser
                   /\ store' = store
                   /\ resp'.user = NoUser
          /\ (session[c] = NoUser /\ session'[c] # NoUser)
                => /\ resp'.kind = "login" /\ resp'.outcome = "LoggedIn"
                   /\ resp'.user = session'[c]
                   /\ isActive[session'[c]]
          /\ (session[c] = NoUser /\ isActive' # isActive) => session'[c] = NoUser
          /\ (resp' # resp /\ resp'.via = "web" /\ resp'.user # NoUser)
                => \E d \in Clients : session'[d] = resp'.user /\ isActive[resp'.user]]_vars

C28_Witness ==
    /\ resp.via = "web" /\ resp.outcome = "Denied"
    /\ resp.kind \in {"add", "edit", "delete", "resolve"}
    /\ \A c \in Clients : session[c] = NoUser
    /\ \A u \in Users : isActive[u] /\ \E r \in store : r.userId = u

\* C29: every add and edit request of an authorized identity ends with a
\* response - success, conflict, not found or error - whatever the form body
\* holds, a missing slug or destination field included
C29_AlwaysAnswered ==
    (resp.kind \in {"add", "edit"} /\ resp.user # NoUser)
        => resp.outcome \in {"Created", "Updated", "Conflict", "NotFound", "Error"}

====
